---- MODULE Spec2Model ----
(***************************************************************************)
(* Model of src/app.py: the deed pipeline process_deed and the functions   *)
(* it calls (normalize_county, validate_dates, validate_money,             *)
(* text_amount_to_number, calculate_tax).                                  *)
(*                                                                         *)
(* Representation                                                          *)
(*  - Python str values are TLA+ strings; characters are read with SubSeq. *)
(*  - A Python float that was parsed from decimal digits is the exact      *)
(*    decimal [num, den] (den a power of ten, no trailing zero digit);     *)
(*    binary rounding of float is outside the model.                       *)
(*  - A rapidfuzz score (a float in 0..100) is an integer number of tenths *)
(*    of a point; the scorer itself is library code and is an unknown but  *)
(*    fixed function (variable wratio, never changed by any action).       *)
(*  - A date string is represented by what dateutil's tokenizer finds in   *)
(*    it: the set of fields it names and their values.  Fields the string  *)
(*    does not name are taken by dateutil from today's date at 00:00.     *)
(*  - A Python call either returns or raises: [ok, val, exc].              *)
(***************************************************************************)
EXTENDS Integers, Sequences, FiniteSets, TLC

VARIABLES
    pc,             \* position of process_deed (or of the single call of a unit specification)
    llm_response,   \* environment: what the chat completion returns for RAW_DEED_TEXT
    counties_file,  \* environment: content of counties.json
    wratio,         \* environment: rapidfuzz score (tenths) of the deed's county text against each name
    today,          \* environment: the wall clock's calendar date
    data,           \* process_deed local: the extracted fields
    counties,       \* process_deed local: the loaded registry
    normalized_county, \* process_deed local
    tax_rate,       \* process_deed local
    tax_due,        \* process_deed local
    error,          \* the exception that ended the run, if any
    calls,          \* history: the functions process_deed has invoked in this run, in order
    stdout,         \* the success report printed by lines 163-166
    prev,           \* history: input, registry and outcome of the previous run
    ret             \* result of the single call of a unit specification

vars == <<pc, llm_response, counties_file, wratio, today, data, counties,
          normalized_county, tax_rate, tax_due, error, calls, stdout, prev, ret>>

-----------------------------------------------------------------------------
(* Python values *)

\* An unbound local / None is the empty tuple, a value v is <<v>>.
Unset == << >>
Some(v) == <<v>>

Exc(type, site, strs, nums) == [type |-> type, site |-> site, strs |-> strs, nums |-> nums]
NoExc == Exc("", "", << >>, << >>)

Return(v) == [ok |-> TRUE, val |-> v, exc |-> NoExc]
Raise(e) == [ok |-> FALSE, val |-> Unset, exc |-> e]

-----------------------------------------------------------------------------
(* str *)

CharAt(s, i) == SubSeq(s, i, i)

UpperCase == "ABCDEFGHIJKLMNOPQRSTUVWXYZ"
LowerCase == "abcdefghijklmnopqrstuvwxyz"

IndexIn(alphabet, c) ==
    IF \E k \in 1..Len(alphabet) : CharAt(alphabet, k) = c
    THEN CHOOSE k \in 1..Len(alphabet) : CharAt(alphabet, k) = c
    ELSE 0

\* str.lower() on one character
lower_char(c) ==
    IF IndexIn(UpperCase, c) > 0 THEN CharAt(LowerCase, IndexIn(UpperCase, c)) ELSE c

RECURSIVE str_lower(_)
str_lower(s) == IF Len(s) = 0 THEN "" ELSE lower_char(CharAt(s, 1)) \o str_lower(Tail(s))

\* Python's `needle in hay` for str
str_in(needle, hay) ==
    \E i \in 1..(Len(hay) - Len(needle) + 1) : SubSeq(hay, i, i + Len(needle) - 1) = needle

-----------------------------------------------------------------------------
(* float: exact decimals *)

RECURSIVE Pow10(_)
Pow10(n) == IF n = 0 THEN 1 ELSE 10 * Pow10(n - 1)

\* The decimal num/den with trailing zero digits of the fraction dropped,
\* so that equal values are equal records (1250000.00 = 1250000.0).
RECURSIVE Dec(_, _)
Dec(num, den) ==
    IF den > 1 /\ num % 10 = 0 THEN Dec(num \div 10, den \div 10)
    ELSE [num |-> num, den |-> den]

DecOfInt(n) == Dec(n, 1)
DecMul(a, b) == Dec(a.num * b.num, a.den * b.den)
DecSub(a, b) == Dec(a.num * b.den - b.num * a.den, a.den * b.den)
DecAbs(a) == Dec(IF a.num < 0 THEN 0 - a.num ELSE a.num, a.den)
DecGreater(a, b) == a.num * b.den > b.num * a.den

Digits == "0123456789"
IsDigit(c) == IndexIn(Digits, c) > 0

\* re.sub(r"[^\d.]", "", s): every character that is not a digit or "." is removed
RECURSIVE re_sub_non_numeric(_)
re_sub_non_numeric(s) ==
    IF Len(s) = 0 THEN ""
    ELSE LET c == CharAt(s, 1) IN
         (IF IsDigit(c) \/ c = "." THEN c ELSE "") \o re_sub_non_numeric(Tail(s))

RECURSIVE CountDots(_)
CountDots(s) ==
    IF Len(s) = 0 THEN 0
    ELSE (IF CharAt(s, 1) = "." THEN 1 ELSE 0) + CountDots(Tail(s))

RECURSIVE CountDigits(_)
CountDigits(s) ==
    IF Len(s) = 0 THEN 0
    ELSE (IF IsDigit(CharAt(s, 1)) THEN 1 ELSE 0) + CountDigits(Tail(s))

\* the integer written by the digits of s, its "." skipped
RECURSIVE DigitsValue(_)
DigitsValue(s) ==
    IF Len(s) = 0 THEN 0
    ELSE LET c == CharAt(s, Len(s))
             rest == SubSeq(s, 1, Len(s) - 1)
         IN  IF c = "." THEN DigitsValue(rest)
             ELSE 10 * DigitsValue(rest) + (IndexIn(Digits, c) - 1)

\* number of digits after the "." of s (0 when s has none)
RECURSIVE FractionLen(_)
FractionLen(s) ==
    IF Len(s) = 0 \/ CountDots(s) = 0 THEN 0
    ELSE IF CharAt(s, Len(s)) = "." THEN 0
    ELSE 1 + FractionLen(SubSeq(s, 1, Len(s) - 1))

\* mutant: an amount without digits defaults to zero
py_float_default_zero(s) ==
    IF CountDigits(s) = 0 THEN Return(Some(Dec(0, 1)))
    ELSE IF CountDots(s) <= 1
    THEN Return(Some(Dec(DigitsValue(s), Pow10(FractionLen(s)))))
    ELSE Raise(Exc("ValueError", "float", <<s>>, << >>))

\* float(s) for a string s of digits and "." (what re.sub leaves): a literal has
\* at least one digit and at most one "."; anything else raises ValueError.
py_float(s) ==
    IF CountDigits(s) >= 1 /\ CountDots(s) <= 1
    THEN Return(Some(Dec(DigitsValue(s), Pow10(FractionLen(s)))))
    ELSE Raise(Exc("ValueError", "float", <<s>>, << >>))

-----------------------------------------------------------------------------
(* Money validation *)

\* mutant: the text is not lowercased
text_amount_to_number_case_sensitive(text_amount) ==
    LET total0 == 0
        total1 == IF str_in("one million", text_amount) THEN total0 + 1000000 ELSE total0
        total2 == IF str_in("two hundred thousand", text_amount) THEN total1 + 200000 ELSE total1
    IN  total2

text_amount_to_number(text_amount) ==
    LET lowered == str_lower(text_amount)
        total0 == 0
        total1 == IF str_in("one million", lowered) THEN total0 + 1000000 ELSE total0
        total2 == IF str_in("two hundred thousand", lowered) THEN total1 + 200000 ELSE total1
    IN  total2

\* mutant: `>= 1` rejects a difference of exactly 1
validate_money_rejects_one(amount_numeric, amount_text) ==
    LET parsed == py_float(re_sub_non_numeric(amount_numeric)) IN
    IF ~parsed.ok THEN Raise(parsed.exc)
    ELSE LET numeric_value == parsed.val[1]
             text_value == text_amount_to_number(amount_text)
         IN  IF ~DecGreater(DecOfInt(1), DecAbs(DecSub(numeric_value, DecOfInt(text_value))))
             THEN Raise(Exc("ValueError", "MONEY MISMATCH", << >>,
                            <<numeric_value.num, numeric_value.den, text_value>>))
             ELSE Return(Unset)

validate_money(amount_numeric, amount_text) ==
    LET parsed == py_float(re_sub_non_numeric(amount_numeric)) IN
    IF ~parsed.ok THEN Raise(parsed.exc)
    ELSE LET numeric_value == parsed.val[1]
             text_value == text_amount_to_number(amount_text)
         IN  IF DecGreater(DecAbs(DecSub(numeric_value, DecOfInt(text_value))), DecOfInt(1))
             THEN Raise(Exc("ValueError", "MONEY MISMATCH", << >>,
                            <<numeric_value.num, numeric_value.den, text_value>>))
             ELSE Return(Unset)

(* Closing cost calculation *)

calculate_tax(amount_numeric, rate) ==
    LET parsed == py_float(re_sub_non_numeric(amount_numeric)) IN
    IF ~parsed.ok THEN Raise(parsed.exc)
    ELSE Return(Some(DecMul(parsed.val[1], rate)))

-----------------------------------------------------------------------------
(* County normalization *)

\* `if score < 70`: the cutoff of 70 points, in tenths of a point
ScoreCutoff == 700
\* rapidfuzz's best possible score (100 points): extractOne stops scanning at it
OptimalScore == 1000

\* rapidfuzz.process.extractOne(query, choices) with its defaults: scan the
\* choices in order, keep a choice only when it scores strictly higher than the
\* one kept so far, stop at a perfect score; None when there is no choice.
\* score[c] is the scorer's value for (query, c).
RECURSIVE extract_scan(_, _, _, _)
extract_scan(choices, score, i, result) ==
    IF i > Len(choices) THEN result
    ELSE LET sc == score[choices[i]]
             better == result = Unset \/ sc > result[1].score
             kept == IF better
                     THEN Some([choice |-> choices[i], score |-> sc, index |-> i - 1])
                     ELSE result
         IN  IF sc = OptimalScore THEN kept
             ELSE extract_scan(choices, score, i + 1, kept)

extractOne(choices, score) == extract_scan(choices, score, 1, Unset)

\* mutant: the raw input is returned once a match is accepted
normalize_county_returns_input(input_county, registry, score) ==
    LET names == [i \in 1..Len(registry) |-> registry[i].name]
        found == extractOne(names, score)
    IN  IF found = Unset
        THEN Raise(Exc("TypeError", "cannot unpack NoneType", << >>, << >>))
        ELSE IF found[1].score < ScoreCutoff
        THEN Raise(Exc("ValueError", "Unknown county", <<input_county>>, << >>))
        ELSE Return(Some(input_county))

\* mutant: `score <= 70` rejects a score of exactly 70
normalize_county_rejects_cutoff(input_county, registry, score) ==
    LET names == [i \in 1..Len(registry) |-> registry[i].name]
        found == extractOne(names, score)
    IN  IF found = Unset
        THEN Raise(Exc("TypeError", "cannot unpack NoneType", << >>, << >>))
        ELSE IF found[1].score <= ScoreCutoff
        THEN Raise(Exc("ValueError", "Unknown county", <<input_county>>, << >>))
        ELSE Return(Some(found[1].choice))

normalize_county(input_county, registry, score) ==
    LET names == [i \in 1..Len(registry) |-> registry[i].name]
        found == extractOne(names, score)
    IN  IF found = Unset
        THEN Raise(Exc("TypeError", "cannot unpack NoneType", << >>, << >>))
        ELSE IF found[1].score < ScoreCutoff
        THEN Raise(Exc("ValueError", "Unknown county", <<input_county>>, << >>))
        ELSE Return(Some(found[1].choice))

\* next(c["tax_rate"] for c in counties if c["name"] == normalized_county)
lookup_tax_rate(registry, name) ==
    IF \E i \in 1..Len(registry) : registry[i].name = name
    THEN LET first == CHOOSE i \in 1..Len(registry) :
                        /\ registry[i].name = name
                        /\ \A j \in 1..(i - 1) : registry[j].name # name
         IN  Return(Some(registry[first].tax_rate))
    ELSE Raise(Exc("StopIteration", "next", << >>, << >>))

-----------------------------------------------------------------------------
(* Sanity checks: dates *)

IsLeap(y) == (y % 4 = 0 /\ y % 100 # 0) \/ y % 400 = 0

\* calendar.monthrange(y, m)[1]
DaysInMonth(y, m) ==
    IF m = 2 THEN (IF IsLeap(y) THEN 29 ELSE 28)
    ELSE IF m \in {4, 6, 9, 11} THEN 30 ELSE 31

\* dateutil.parser.parse(timestr) with default=None.  timestr is given by the
\* fields the tokenizer finds in it.  No field at all: ParserError (a ValueError).
\* Otherwise the fields found replace those of now() at 00:00; a missing day is
\* the default's day, cut to the month's length.
date_parse(timestr, now) ==
    IF timestr.fields = {} THEN
        Raise(Exc("ValueError", "Unknown string format", << >>, << >>))
    ELSE
        LET y == IF "year" \in timestr.fields THEN timestr.year ELSE now.year
            m == IF "month" \in timestr.fields THEN timestr.month ELSE now.month
            d0 == IF "day" \in timestr.fields THEN timestr.day ELSE now.day
            d == IF "day" \notin timestr.fields /\ d0 > DaysInMonth(y, m)
                 THEN DaysInMonth(y, m) ELSE d0
            hasTime == "time" \in timestr.fields
        IN  Return(Some([year |-> y, month |-> m, day |-> d,
                         hour |-> IF hasTime THEN timestr.hour ELSE 0,
                         minute |-> IF hasTime THEN timestr.minute ELSE 0,
                         aware |-> "tz" \in timestr.fields]))

\* datetime.date(): the calendar date of a datetime
date_of(dt) == <<dt.year, dt.month, dt.day>>

\* the order of naive datetimes (and of aware ones in the same zone, UTC)
DatetimeKey(dt) ==
    (((dt.year * 12 + dt.month) * 31 + dt.day) * 24 + dt.hour) * 60 + dt.minute

validate_dates(date_signed, date_recorded, now) ==
    LET s == date_parse(date_signed, now)
        r == date_parse(date_recorded, now)
    IN  IF ~s.ok THEN Raise(s.exc)
        ELSE IF ~r.ok THEN Raise(r.exc)
        ELSE LET signed == s.val[1]
                 recorded == r.val[1]
             IN  IF signed.aware # recorded.aware
                 THEN Raise(Exc("TypeError", "can't compare offset-naive and offset-aware datetimes",
                                << >>, << >>))
                 ELSE IF DatetimeKey(recorded) < DatetimeKey(signed)
                 THEN Raise(Exc("ValueError", "INVALID DATE ORDER", << >>,
                                date_of(recorded) \o date_of(signed)))
                 ELSE Return(Unset)

-----------------------------------------------------------------------------
(* Inputs *)

MaxCounties == 2    \* longest registry of the county-resolver specification
MaxPieces == 2      \* most pieces joined into one written amount

RECURSIVE SeqsUpTo(_, _)
SeqsUpTo(S, n) ==
    IF n = 0 THEN {<< >>}
    ELSE LET shorter == SeqsUpTo(S, n - 1) IN
         shorter \cup {Append(q, x) : q \in {t \in shorter : Len(t) = n - 1}, x \in S}

Range(q) == {q[i] : i \in 1..Len(q)}

RECURSIVE JoinAll(_)
JoinAll(q) == IF q = << >> THEN "" ELSE Head(q) \o JoinAll(Tail(q))

\* date strings, as the fields dateutil finds in them
DateStr(fields, y, m, d, hh, mm) ==
    [fields |-> fields, year |-> y, month |-> m, day |-> d, hour |-> hh, minute |-> mm]
Ymd(y, m, d) == DateStr({"year", "month", "day"}, y, m, d, 0, 0)
YmdHm(y, m, d, hh, mm) == DateStr({"year", "month", "day", "time"}, y, m, d, hh, mm)
YmdHmZ(y, m, d, hh, mm) == DateStr({"year", "month", "day", "time", "tz"}, y, m, d, hh, mm)
MonthYear(y, m) == DateStr({"year", "month"}, y, m, 0, 0, 0)
MonthDay(m, d) == DateStr({"month", "day"}, 0, m, d, 0, 0)
NotADate == DateStr({}, 0, 0, 0, 0, 0)

\* the fields of RAW_DEED_TEXT that the pipeline reads
SampleDeed ==
    [county |-> "S. Clara",
     date_signed |-> Ymd(2024, 1, 15),
     date_recorded |-> Ymd(2024, 1, 10),
     amount_numeric |-> "$1,250,000.00",
     amount_text |-> "One Million Two Hundred Thousand Dollars"]

Without(f, key) == [k \in DOMAIN f \ {key} |-> f[k]]

CountyNames == {"Santa Clara", "Santa Cruz", "San Mateo"}
TaxRates == {Dec(1, 100), Dec(11, 1000)}
CountyRecords == [name : CountyNames, tax_rate : TaxRates]
ScoreValues == {0, 699, 700, 855, 1000}
CountyTexts == {"S. Clara", "Santa Clara", "Zzyzx"}

\* a scorer gives identical strings the perfect score
ScorersFor(text, values) ==
    {f \in [CountyNames -> values] : \A n \in CountyNames : n = text => f[n] = OptimalScore}

Todays == {[year |-> 2024, month |-> 3, day |-> 10],
           [year |-> 2024, month |-> 3, day |-> 20],
           [year |-> 2025, month |-> 1, day |-> 31]}

Later(a, b) == (a.year * 12 + a.month) * 31 + a.day > (b.year * 12 + b.month) * 31 + b.day

-----------------------------------------------------------------------------
(* process_deed *)

NoFile == [exists |-> FALSE, content |-> << >>]
File(content) == [exists |-> TRUE, content |-> content]

NotJson == [json |-> FALSE, fields |-> << >>]
Json(fields) == [json |-> TRUE, fields |-> fields]

\* json.loads(response...content)
extract_with_llm(response) ==
    IF response.json THEN Return(Some(response.fields))
    ELSE Raise(Exc("JSONDecodeError", "json.loads", << >>, << >>))

\* json.load(open("counties.json"))
load_counties(file) ==
    IF file.exists THEN Return(Some(file.content))
    ELSE Raise(Exc("FileNotFoundError", "counties.json", << >>, << >>))

\* data[k] for each k of keys, in order: the first absent key raises KeyError
RECURSIVE subscript(_, _)
subscript(d, keys) ==
    IF keys = << >> THEN Return(Unset)
    ELSE IF Head(keys) \notin DOMAIN d
    THEN Raise(Exc("KeyError", Head(keys), << >>, << >>))
    ELSE subscript(d, Tail(keys))

\* mutant: a try/except around validate_dates that swallows its exception
AfterStage_swallow_dates(r, next) ==
    IF r.ok \/ next = "DatesValid" THEN next ELSE "Failed"

\* process_deed has no try/except: an exception raised by a stage ends the run
AfterStage(r, next) == IF r.ok THEN next ELSE "Failed"

NoPrev == [run |-> FALSE]

Locals ==
    /\ data = Unset
    /\ counties = Unset
    /\ normalized_county = Unset
    /\ tax_rate = Unset
    /\ tax_due = Unset
    /\ error = NoExc
    /\ calls = << >>
    /\ stdout = Unset

Extract ==
    /\ pc = "Start"
    /\ LET r == extract_with_llm(llm_response) IN
       /\ calls' = Append(calls, "extract_with_llm")
       /\ data' = IF r.ok THEN r.val ELSE data
       /\ error' = r.exc
       /\ pc' = AfterStage(r, "Extracted")
    /\ UNCHANGED <<llm_response, counties_file, wratio, today, counties,
                   normalized_county, tax_rate, tax_due, stdout, prev, ret>>

LoadCounties ==
    /\ pc = "Extracted"
    /\ LET r == load_counties(counties_file) IN
       /\ calls' = Append(calls, "load_counties")
       /\ counties' = IF r.ok THEN r.val ELSE counties
       /\ error' = r.exc
       /\ pc' = AfterStage(r, "Loaded")
    /\ UNCHANGED <<llm_response, counties_file, wratio, today, data,
                   normalized_county, tax_rate, tax_due, stdout, prev, ret>>

\* lines 151-155: normalize_county, then the rate of the first record of that name
NormalizeCounty ==
    /\ pc = "Loaded"
    /\ LET k == subscript(data[1], <<"county">>)
           r == IF k.ok THEN normalize_county(data[1].county, counties[1], wratio) ELSE k
           t == IF r.ok THEN lookup_tax_rate(counties[1], r.val[1]) ELSE r
       IN
       /\ calls' = IF k.ok THEN Append(calls, "normalize_county") ELSE calls
       /\ normalized_county' = IF r.ok THEN r.val ELSE normalized_county
       /\ tax_rate' = IF t.ok THEN t.val ELSE tax_rate
       /\ error' = t.exc
       /\ pc' = AfterStage(t, "CountyResolved")
    /\ UNCHANGED <<llm_response, counties_file, wratio, today, data, counties,
                   tax_due, stdout, prev, ret>>

\* mutant: lines 158 and 159 swapped, the amounts are checked before the dates
ValidateDates_money_first ==
    /\ pc = "CountyResolved"
    /\ LET k == subscript(data[1], <<"amount_numeric", "amount_text", "date_signed", "date_recorded">>)
           m == IF k.ok
                THEN validate_money(data[1].amount_numeric, data[1].amount_text)
                ELSE k
           r == IF m.ok
                THEN validate_dates(data[1].date_signed, data[1].date_recorded, today)
                ELSE m
       IN
       /\ calls' = IF ~k.ok THEN calls
                   ELSE IF m.ok THEN Append(calls, "validate_dates")
                   ELSE Append(calls, "validate_money")
       /\ error' = r.exc
       /\ pc' = AfterStage(r, "DatesValid")
    /\ UNCHANGED <<llm_response, counties_file, wratio, today, data, counties,
                   normalized_county, tax_rate, tax_due, stdout, prev, ret>>

ValidateDates ==
    /\ pc = "CountyResolved"
    /\ LET k == subscript(data[1], <<"date_signed", "date_recorded">>)
           r == IF k.ok
                THEN validate_dates(data[1].date_signed, data[1].date_recorded, today)
                ELSE k
       IN
       /\ calls' = IF k.ok THEN Append(calls, "validate_dates") ELSE calls
       /\ error' = r.exc
       /\ pc' = AfterStage(r, "DatesValid")
    /\ UNCHANGED <<llm_response, counties_file, wratio, today, data, counties,
                   normalized_county, tax_rate, tax_due, stdout, prev, ret>>

ValidateMoney ==
    /\ pc = "DatesValid"
    /\ LET k == subscript(data[1], <<"amount_numeric", "amount_text">>)
           r == IF k.ok
                THEN validate_money(data[1].amount_numeric, data[1].amount_text)
                ELSE k
       IN
       /\ calls' = IF k.ok THEN Append(calls, "validate_money") ELSE calls
       /\ error' = r.exc
       /\ pc' = AfterStage(r, "Validated")
    /\ UNCHANGED <<llm_response, counties_file, wratio, today, data, counties,
                   normalized_county, tax_rate, tax_due, stdout, prev, ret>>

\* mutant: the tax is computed from the written amount
CalculateTax_from_text ==
    /\ pc = "Validated"
    /\ calls' = Append(calls, "calculate_tax")
    /\ tax_due' = Some(DecMul(DecOfInt(text_amount_to_number(data[1].amount_text)), tax_rate[1]))
    /\ error' = NoExc
    /\ pc' = "Taxed"
    /\ UNCHANGED <<llm_response, counties_file, wratio, today, data, counties,
                   normalized_county, tax_rate, stdout, prev, ret>>

CalculateTax ==
    /\ pc = "Validated"
    /\ LET r == calculate_tax(data[1].amount_numeric, tax_rate[1]) IN
       /\ calls' = Append(calls, "calculate_tax")
       /\ tax_due' = IF r.ok THEN r.val ELSE tax_due
       /\ error' = r.exc
       /\ pc' = AfterStage(r, "Taxed")
    /\ UNCHANGED <<llm_response, counties_file, wratio, today, data, counties,
                   normalized_county, tax_rate, stdout, prev, ret>>

\* lines 163-166: the success report
Report ==
    /\ pc = "Taxed"
    /\ stdout' = Some([county |-> normalized_county[1], tax_rate |-> tax_rate[1],
                       tax_due |-> tax_due[1]])
    /\ pc' = "Done"
    /\ UNCHANGED <<llm_response, counties_file, wratio, today, data, counties,
                   normalized_county, tax_rate, tax_due, error, calls, prev, ret>>

Run == Extract \/ LoadCounties \/ NormalizeCounty \/ ValidateDates \/ ValidateMoney
       \/ CalculateTax \/ Report

-----------------------------------------------------------------------------
(* One run of process_deed *)

PipelineDates ==
    {<<Ymd(2024, 1, 15), Ymd(2024, 1, 10)>>,
     <<Ymd(2024, 1, 10), Ymd(2024, 1, 15)>>,
     <<YmdHm(2024, 1, 15, 14, 0), YmdHm(2024, 1, 15, 9, 0)>>,
     <<NotADate, Ymd(2024, 1, 10)>>,
     <<Ymd(2024, 1, 15), MonthYear(2024, 1)>>}
PipelineNumerics ==
    {"$1,250,000.00", "$1,200,000.00", "1200001", "1,200,001.5", "", "N/A", ".", "$ 0.00"}
PipelineTexts ==
    {"One Million Two Hundred Thousand Dollars", "ONE MILLION TWO HUNDRED THOUSAND",
     "Fifty Dollars"}
PipelineDeeds ==
    {[county |-> c, date_signed |-> d[1], date_recorded |-> d[2],
      amount_numeric |-> n, amount_text |-> t] :
        c \in {"S. Clara", "Zzyzx"}, d \in PipelineDates,
        n \in PipelineNumerics, t \in PipelineTexts}
    \cup {Without(SampleDeed, k) : k \in {"county", "date_recorded", "amount_text"}}
PipelineFiles ==
    {NoFile, File(<< >>),
     File(<<[name |-> "Santa Cruz", tax_rate |-> Dec(1, 100)],
            [name |-> "Santa Clara", tax_rate |-> Dec(11, 1000)]>>),
     File(<<[name |-> "Santa Clara", tax_rate |-> Dec(1, 100)],
            [name |-> "Santa Clara", tax_rate |-> Dec(11, 1000)]>>)}
PipelineScores == {699, 855}
PipelineTodays == {t \in Todays : t.year = 2024}

Init ==
    /\ pc = "Start"
    /\ llm_response \in {NotJson} \cup {Json(d) : d \in PipelineDeeds}
    /\ counties_file \in PipelineFiles
    /\ wratio \in [CountyNames -> PipelineScores]
    /\ today \in PipelineTodays
    /\ Locals
    /\ prev = NoPrev
    /\ ret = Return(Unset)

Next == Run

Spec == Init /\ [][Next]_vars

-----------------------------------------------------------------------------
(* Repeated runs: the script is started again after a run has ended *)

Outcome ==
    [pc |-> pc, county |-> normalized_county, tax_rate |-> tax_rate,
     tax_due |-> tax_due, error |-> error]

RerunDates ==
    {<<Ymd(2024, 1, 10), Ymd(2024, 1, 15)>>,
     <<Ymd(2024, 1, 15), Ymd(2024, 1, 10)>>,
     <<Ymd(2024, 1, 15), MonthYear(2024, 1)>>}
RerunNumerics == {"$1,250,000.00", "$1,200,000.00", "1,200,001", "1,200,000.5", "N/A"}
RerunTexts ==
    {"One Million Two Hundred Thousand Dollars", "ONE MILLION TWO HUNDRED THOUSAND",
     "One Million Dollars"}
RerunDeeds ==
    {[county |-> "S. Clara", date_signed |-> d[1], date_recorded |-> d[2],
      amount_numeric |-> n, amount_text |-> t] :
        d \in RerunDates, n \in RerunNumerics, t \in RerunTexts}
RerunFiles ==
    {File(<<[name |-> "Santa Cruz", tax_rate |-> Dec(1, 100)],
            [name |-> "Santa Clara", tax_rate |-> Dec(11, 1000)]>>),
     File(<<[name |-> "Santa Clara", tax_rate |-> Dec(1, 100)],
            [name |-> "Santa Clara", tax_rate |-> Dec(11, 1000)]>>)}

InitRerun ==
    /\ pc = "Start"
    /\ llm_response \in {NotJson} \cup {Json(d) : d \in RerunDeeds}
    /\ counties_file \in RerunFiles
    /\ wratio \in [CountyNames -> PipelineScores]
    /\ today \in Todays
    /\ Locals
    /\ prev = NoPrev
    /\ ret = Return(Unset)

\* the script is started again: the extractor answers as before, or with another
\* written amount; counties.json is as before, or has been edited; nothing of
\* the ended run is kept but the history variable prev
Rerun ==
    /\ pc \in {"Done", "Failed"}
    /\ prev' = [run |-> TRUE, response |-> llm_response, file |-> counties_file,
                outcome |-> Outcome]
    /\ \/ llm_response' = llm_response
       \/ /\ llm_response.json
          /\ \E t \in RerunTexts :
                /\ t # llm_response.fields.amount_text
                /\ llm_response' = Json([llm_response.fields EXCEPT !.amount_text = t])
    /\ counties_file' \in RerunFiles
    /\ pc' = "Start"
    /\ data' = Unset
    /\ counties' = Unset
    /\ normalized_county' = Unset
    /\ tax_rate' = Unset
    /\ tax_due' = Unset
    /\ error' = NoExc
    /\ calls' = << >>
    /\ stdout' = Unset
    /\ UNCHANGED <<wratio, today, ret>>

\* environment, between runs: time passes
Tick ==
    /\ pc \in {"Done", "Failed"}
    /\ \E t \in Todays : Later(t, today) /\ today' = t
    /\ UNCHANGED <<pc, llm_response, counties_file, wratio, data, counties,
                   normalized_county, tax_rate, tax_due, error, calls, stdout, prev, ret>>

NextRerun == Run \/ Rerun \/ Tick

SpecRerun == InitRerun /\ [][NextRerun]_vars

-----------------------------------------------------------------------------
(* Properties of a run *)

StageOrder ==
    <<"Start", "Extracted", "Loaded", "CountyResolved", "DatesValid", "Validated",
      "Taxed", "Done">>
StageCalls ==
    <<"extract_with_llm", "load_counties", "normalize_county", "validate_dates",
      "validate_money", "calculate_tax">>
Rank(p) == CHOOSE i \in 1..Len(StageOrder) : StageOrder[i] = p

\* the stages' verdicts on the run's inputs, each computed on its own
CountyVerdict(fields, registry) ==
    IF "county" \in DOMAIN fields THEN normalize_county(fields.county, registry, wratio)
    ELSE Raise(Exc("KeyError", "county", << >>, << >>))
DatesVerdict(fields) ==
    LET k == subscript(fields, <<"date_signed", "date_recorded">>) IN
    IF k.ok THEN validate_dates(fields.date_signed, fields.date_recorded, today) ELSE k
MoneyVerdict(fields) ==
    LET k == subscript(fields, <<"amount_numeric", "amount_text">>) IN
    IF k.ok THEN validate_money(fields.amount_numeric, fields.amount_text) ELSE k

C1_Step ==
    /\ pc \notin {"Done", "Failed"}
    /\ \/ pc' = "Failed" /\ error' # NoExc /\ tax_due' = Unset /\ stdout' = Unset
       \/ pc' = StageOrder[Rank(pc) + 1] /\ error' = NoExc
    /\ tax_due' # Unset => pc' \in {"Taxed", "Done"}
    /\ stdout' # Unset => pc' = "Done"
    /\ \/ calls' = calls
       \/ Len(calls) < Len(StageCalls) /\ calls' = Append(calls, StageCalls[Len(calls) + 1])
    /\ calls' = SubSeq(StageCalls, 1, Len(calls'))
    /\ pc' = "Done" =>
          /\ calls' = StageCalls
          /\ llm_response.json /\ counties_file.exists
          /\ CountyVerdict(llm_response.fields, counties_file.content).ok
          /\ DatesVerdict(llm_response.fields).ok
          /\ MoneyVerdict(llm_response.fields).ok

\* C1: a run only moves one stage forward along Start -> Extracted -> (registry
\* loaded) -> CountyResolved -> (dates valid) -> Validated -> Taxed -> Done, or
\* to Failed with the stage's exception; Failed and Done have no successor (no
\* retry), each function is invoked at most once and in order, a tax and a
\* success report exist only at Taxed/Done, and Done is entered only when
\* every stage accepts the run's inputs.
C1_FailFast == [][C1_Step]_vars

\* a run that failed at the last validation stage, with no tax and no report
C1_Witness ==
    /\ pc = "Failed"
    /\ error.site = "MONEY MISMATCH"
    /\ calls = SubSeq(StageCalls, 1, 5)
    /\ tax_due = Unset
    /\ stdout = Unset

NoDigit(s) == \A i \in 1..Len(s) : CharAt(s, i) \notin
    {"0", "1", "2", "3", "4", "5", "6", "7", "8", "9"}
OnlyDots(s) == \A i \in 1..Len(s) : CharAt(s, i) = "."

\* C7: when the extracted amount_numeric holds no digit, no tax is computed and
\* no success is reported, the run never passes money validation, and once
\* validate_money has been invoked the run has failed with float()'s ValueError
\* on what stripping left (nothing but "." characters); the amount is not
\* taken to be zero.
C7_NoDigitsAborts ==
    (/\ data # Unset
     /\ "amount_numeric" \in DOMAIN data[1]
     /\ NoDigit(data[1].amount_numeric))
    => /\ tax_due = Unset
       /\ stdout = Unset
       /\ pc \notin {"Validated", "Taxed", "Done"}
       /\ "calculate_tax" \notin Range(calls)
       /\ "validate_money" \in Range(calls) =>
             /\ pc = "Failed"
             /\ error.type = "ValueError"
             /\ error.site = "float"
             /\ OnlyDots(error.strs[1])

\* validate_money was invoked on a written amount worth 0 and a numeric field
\* without digits, and the run failed there
C7_Witness ==
    /\ pc = "Failed"
    /\ data # Unset
    /\ "amount_numeric" \in DOMAIN data[1]
    /\ data[1].amount_numeric = "N/A"
    /\ data[1].amount_text = "Fifty Dollars"
    /\ "validate_money" \in Range(calls)
    /\ error.site = "float"

\* C10: a failed run surfaces the failure of the first failing stage in the
\* order extraction, registry load, county resolution, date validation, money
\* validation: after a failed extraction nothing else is invoked; a county
\* failure is the run's error and neither validator is invoked; a date failure
\* (parse or order) is the run's error and validate_money is not invoked, in
\* particular for a deed whose dates are out of order and whose amounts
\* mismatch.
C10_FirstFailureSurfaced ==
    pc = "Failed" =>
      IF ~llm_response.json THEN
          error.type = "JSONDecodeError" /\ calls = <<"extract_with_llm">>
      ELSE IF ~counties_file.exists THEN
          error.type = "FileNotFoundError" /\ "normalize_county" \notin Range(calls)
      ELSE
          LET f == llm_response.fields
              c == CountyVerdict(f, counties_file.content)
              d == DatesVerdict(f)
              m == MoneyVerdict(f)
          IN  /\ ~c.ok => /\ error = c.exc
                          /\ "validate_dates" \notin Range(calls)
                          /\ "validate_money" \notin Range(calls)
              /\ (c.ok /\ ~d.ok) => /\ error = d.exc
                                    /\ "validate_money" \notin Range(calls)
              /\ (c.ok /\ ~d.ok /\ ~m.ok /\ d.exc.site = "INVALID DATE ORDER"
                       /\ m.exc.site = "MONEY MISMATCH")
                    => error.site = "INVALID DATE ORDER"
              /\ (c.ok /\ d.ok) => error = m.exc

\* the sample deed: recorded before signed and $1,250,000 against 1,200,000 in
\* words; the run ended on the date order
C10_Witness ==
    /\ pc = "Failed"
    /\ data = Some(SampleDeed)
    /\ error.site = "INVALID DATE ORDER"
    /\ ~MoneyVerdict(SampleDeed).ok
    /\ "validate_money" \notin Range(calls)

-----------------------------------------------------------------------------
(* Properties of repeated runs *)

OnlyWrittenAmountDiffers(a, b) ==
    /\ a.json /\ b.json
    /\ DOMAIN a.fields = DOMAIN b.fields
    /\ "amount_text" \in DOMAIN a.fields
    /\ \A k \in DOMAIN a.fields \ {"amount_text"} : a.fields[k] = b.fields[k]

\* C2: once a run has computed its tax, tax_rate is the rate of a registry
\* record named normalized_county and tax_due is the value parsed from
\* amount_numeric times tax_rate; and a successful run whose input differs from
\* the previous successful run's only in amount_text (same registry) has the
\* same tax_due.
C2_TaxFromNumeric ==
    pc \in {"Taxed", "Done"} =>
        LET numeric == py_float(re_sub_non_numeric(data[1].amount_numeric)).val[1] IN
        /\ \E i \in 1..Len(counties[1]) :
              /\ counties[1][i].name = normalized_county[1]
              /\ counties[1][i].tax_rate = tax_rate[1]
        /\ tax_due = Some(DecMul(numeric, tax_rate[1]))
        /\ (/\ prev.run
            /\ prev.outcome.pc = "Done"
            /\ prev.file = counties_file
            /\ OnlyWrittenAmountDiffers(prev.response, llm_response))
           => tax_due = prev.outcome.tax_due

\* two successful runs in a row on the same registry whose written amounts
\* differ, the numeric amount not being the written one
C2_Witness ==
    /\ pc = "Done"
    /\ prev.run
    /\ prev.outcome.pc = "Done"
    /\ prev.file = counties_file
    /\ OnlyWrittenAmountDiffers(prev.response, llm_response)
    /\ prev.response.fields.amount_text # llm_response.fields.amount_text
    /\ data[1].amount_numeric = "1,200,000.5"
    /\ tax_due = Some(Dec(132000055, 10000))

\* C8: a run that ended on the same extracted fields and the same registry file
\* as the previous run ended with the same outcome: the same county, rate and
\* tax, or the same exception.
C8_Idempotent ==
    (/\ pc \in {"Done", "Failed"}
     /\ prev.run
     /\ prev.response = llm_response
     /\ prev.file = counties_file)
    => Outcome = prev.outcome

-----------------------------------------------------------------------------
(* The functions on their own: one call on inputs drawn from wider sets *)

UnitInit(deed, file) ==
    /\ pc = "call"
    /\ llm_response = Json(deed)
    /\ counties_file = file
    /\ data = Some(deed)
    /\ counties = Some(file.content)
    /\ normalized_county = Unset
    /\ tax_rate = Unset
    /\ tax_due = Unset
    /\ error = NoExc
    /\ calls = << >>
    /\ stdout = Unset
    /\ prev = NoPrev
    /\ ret = Return(Unset)

UnitFrame ==
    UNCHANGED <<llm_response, counties_file, wratio, today, data, counties,
                normalized_county, tax_rate, tax_due, error, calls, stdout, prev>>

SampleFile ==
    File(<<[name |-> "Santa Cruz", tax_rate |-> Dec(1, 100)],
           [name |-> "Santa Clara", tax_rate |-> Dec(11, 1000)]>>)
SampleToday == [year |-> 2024, month |-> 3, day |-> 10]
SampleScores == [n \in CountyNames |-> IF n = "Santa Clara" THEN 855 ELSE 0]

(* normalize_county *)

InitCounty ==
    /\ \E t \in CountyTexts :
          /\ wratio \in ScorersFor(t, ScoreValues)
          /\ \E reg \in SeqsUpTo(CountyRecords, MaxCounties) :
                UnitInit([SampleDeed EXCEPT !.county = t], File(reg))
    /\ today = SampleToday

CallNormalizeCounty ==
    /\ pc = "call"
    /\ ret' = normalize_county(data[1].county, counties[1], wratio)
    /\ pc' = "returned"
    /\ UnitFrame

NextCounty == CallNormalizeCounty

SpecCounty == InitCounty /\ [][NextCounty]_vars

RegistryNames == {counties[1][i].name : i \in 1..Len(counties[1])}
BestScore == CHOOSE b \in {wratio[n] : n \in RegistryNames} :
                \A n \in RegistryNames : wratio[n] <= b

\* C3: whenever normalize_county returns, the value is the name of a record of
\* the registry; on an empty registry it raises.
C3_ResolvedNameInRegistry ==
    pc = "returned" =>
        /\ ret.ok => ret.val # Unset /\ ret.val[1] \in RegistryNames
        /\ counties[1] = << >> => ~ret.ok

\* a fuzzy match: the returned registry name is not the text that was given
C3_Witness ==
    /\ pc = "returned"
    /\ ret.ok
    /\ data[1].county = "S. Clara"
    /\ ret.val = Some("Santa Clara")

\* C4: on a registry with at least one record, normalize_county raises
\* ValueError "Unknown county" with the input text when the best score among the
\* registry's names is below 70, and otherwise (70 included) returns a registry
\* name that has the best score.
C4_CutoffAt70 ==
    (pc = "returned" /\ counties[1] # << >>) =>
        IF BestScore < 700
        THEN /\ ~ret.ok
             /\ ret.exc.type = "ValueError"
             /\ ret.exc.site = "Unknown county"
             /\ ret.exc.strs = <<data[1].county>>
        ELSE /\ ret.ok
             /\ ret.val[1] \in RegistryNames
             /\ wratio[ret.val[1]] = BestScore

\* a best score of exactly 70 is accepted
C4_Witness ==
    /\ pc = "returned"
    /\ counties[1] # << >>
    /\ BestScore = 700
    /\ ret.ok
    /\ ret.val[1] # data[1].county

(* text_amount_to_number *)

TextPieces ==
    {"One Million", "ONE MILLION ", "one  million", "One Mil", "lion", " ",
     "Two Hundred Thousand", " two hundred thousand", "Two Hundred", " Thousand",
     " Dollars", "Fifty Thousand", "two hundred thousand one million"}
WrittenAmounts == {JoinAll(q) : q \in SeqsUpTo(TextPieces, MaxPieces)}

InitText ==
    /\ \E t \in WrittenAmounts : UnitInit([SampleDeed EXCEPT !.amount_text = t], SampleFile)
    /\ wratio = SampleScores
    /\ today = SampleToday

CallTextAmountToNumber ==
    /\ pc = "call"
    /\ ret' = Return(Some(text_amount_to_number(data[1].amount_text)))
    /\ pc' = "returned"
    /\ UnitFrame

NextText == CallTextAmountToNumber

SpecText == InitText /\ [][NextText]_vars

\* c is the lowercase letter (or other character) p, or p's capital
MatchesIgnoringCase(c, p) ==
    \/ c = p
    \/ \E k \in 1..26 : CharAt(LowerCase, k) = p /\ CharAt(UpperCase, k) = c
HasPhrase(text, phrase) ==
    \E i \in 1..Len(text) :
        /\ i + Len(phrase) - 1 <= Len(text)
        /\ \A j \in 1..Len(phrase) :
              MatchesIgnoringCase(CharAt(text, i + j - 1), CharAt(phrase, j))

\* C9: the converter's value is 1,000,000 if the text contains "one million" in
\* any letter case (else 0) plus 200,000 if it contains "two hundred thousand"
\* in any letter case (else 0): one of 0, 200000, 1000000, 1200000.
C9_AdditiveVocabulary ==
    pc = "returned" =>
        /\ ret.val[1] = (IF HasPhrase(data[1].amount_text, "one million") THEN 1000000 ELSE 0)
                      + (IF HasPhrase(data[1].amount_text, "two hundred thousand")
                         THEN 200000 ELSE 0)
        /\ ret.val[1] \in {0, 200000, 1000000, 1200000}

\* both phrases found in a text that is not written in lowercase
C9_Witness ==
    /\ pc = "returned"
    /\ data[1].amount_text = "ONE MILLION Two Hundred Thousand"
    /\ ret.val = Some(1200000)

(* validate_money *)

NumericPrefixes == {"", "$", "USD "}
NumericIntegers ==
    {"", "0", "1", "2", "199,999", "200,001", "200,002", "999,998", "1,000,001",
     "1,199,999", "1,200,000", "1,200,001", "1,200,002", "1,250,000"}
NumericFractions == {"", ".", ".00", ".01", ".5", ".99", ".0.0"}
NumericAmounts ==
    {p \o i \o f : p \in NumericPrefixes, i \in NumericIntegers, f \in NumericFractions}
MoneyTexts ==
    {"", "One Million Dollars", "Two Hundred Thousand", "One Million Two Hundred Thousand Dollars"}

InitMoney ==
    /\ \E n \in NumericAmounts, t \in MoneyTexts :
          UnitInit([SampleDeed EXCEPT !.amount_numeric = n, !.amount_text = t], SampleFile)
    /\ wratio = SampleScores
    /\ today = SampleToday

CallValidateMoney ==
    /\ pc = "call"
    /\ ret' = validate_money(data[1].amount_numeric, data[1].amount_text)
    /\ pc' = "returned"
    /\ UnitFrame

NextMoney == CallValidateMoney

SpecMoney == InitMoney /\ [][NextMoney]_vars

\* |num/den - t| as a number of 1/den
AbsDiffUnits(numeric, t) ==
    IF numeric.num >= t * numeric.den THEN numeric.num - t * numeric.den
    ELSE t * numeric.den - numeric.num

\* C6: when amount_numeric parses, validate_money raises exactly when the
\* parsed value and the converter's value of amount_text differ by more than 1,
\* and the exception it raises is the money mismatch carrying both values; a
\* difference of exactly 1 passes.
C6_ToleranceOfOne ==
    pc = "returned" =>
        LET parsed == py_float(re_sub_non_numeric(data[1].amount_numeric))
            t == text_amount_to_number(data[1].amount_text)
        IN  parsed.ok =>
              LET numeric == parsed.val[1] IN
              IF AbsDiffUnits(numeric, t) > numeric.den
              THEN /\ ~ret.ok
                   /\ ret.exc.type = "ValueError"
                   /\ ret.exc.site = "MONEY MISMATCH"
                   /\ ret.exc.nums = <<numeric.num, numeric.den, t>>
              ELSE ret.ok

\* a difference of exactly one currency unit passes
C6_Witness ==
    /\ pc = "returned"
    /\ data[1].amount_numeric = "$1,200,001.00"
    /\ data[1].amount_text = "One Million Two Hundred Thousand Dollars"
    /\ ret.ok

(* validate_dates *)

DateTexts ==
    {NotADate}
    \cup {Ymd(2024, m, d) : m \in {1, 2}, d \in {10, 15}}
    \cup {Ymd(2023, 12, 31)}
    \cup {YmdHm(2024, 1, d, h, 0) : d \in {10, 15}, h \in {9, 14}}
    \cup {YmdHmZ(2024, 1, 15, 9, 0)}
    \cup {MonthYear(2024, 1), MonthYear(2024, 2), MonthDay(1, 15), MonthDay(3, 15)}

InitDates ==
    /\ \E s \in DateTexts, r \in DateTexts :
          UnitInit([SampleDeed EXCEPT !.date_signed = s, !.date_recorded = r], SampleFile)
    /\ wratio = SampleScores
    /\ today \in Todays

CallValidateDates ==
    /\ pc = "call"
    /\ ret' = validate_dates(data[1].date_signed, data[1].date_recorded, today)
    /\ pc' = "returned"
    /\ UnitFrame

NextDates == CallValidateDates

SpecDates == InitDates /\ [][NextDates]_vars

CalendarDateBefore(a, b) ==
    \/ a[1] < b[1]
    \/ a[1] = b[1] /\ a[2] < b[2]
    \/ a[1] = b[1] /\ a[2] = b[2] /\ a[3] < b[3]

\* C5: for two strings that both parse, validate_dates raises the date-order
\* error exactly when the recorded calendar date is before the signed calendar
\* date, and returns when they are the same calendar date, whatever the times
\* of day.
C5_CalendarDateOnly ==
    pc = "returned" =>
        LET s == date_parse(data[1].date_signed, today)
            r == date_parse(data[1].date_recorded, today)
        IN  (s.ok /\ r.ok) =>
              /\ (~ret.ok /\ ret.exc.site = "INVALID DATE ORDER")
                    <=> CalendarDateBefore(date_of(r.val[1]), date_of(s.val[1]))
              /\ date_of(r.val[1]) = date_of(s.val[1]) => ret.ok

====
